---- MODULE Spec2Model ----
(***************************************************************************)
(* tcomb-graphql: tcomb type declarations are transformed into GraphQL     *)
(* schema types (transform and its kind builders), annotated through       *)
(* proxies (type, input, fn, arg), and assembled into an executable schema *)
(* by TCombGraphQLSchema.                                                  *)
(*                                                                         *)
(* Objects are modelled by identity: a tcomb declaration is an id of the   *)
(* table Decls, a GraphQL named type is an index of the sequence heap.     *)
(* GraphQLList / GraphQLNonNull wrappers and the transient maybe marker    *)
(* are the prefix w of a type reference [w, o].                            *)
(***************************************************************************)
EXTENDS Integers, Sequences, FiniteSets, TLC

VARIABLES heap, gql, calls, queries, mutations, subscriptions, resolvers, shield, schemas, adaptCalls, returned, suppliedR, suppliedP

vars == <<heap, gql, calls, queries, mutations, subscriptions, resolvers, shield, schemas, adaptCalls, returned, suppliedR, suppliedP>>

transformVars == <<heap, gql, calls>>

registryVars == <<queries, mutations, subscriptions>>

tableVars == <<resolvers, shield, suppliedR, suppliedP>>

buildVars == <<schemas, adaptCalls, returned>>

\* Bounds of the model.
MaxStack == 10

MaxCalls == 2

MaxBuilds == 2

(***************************************************************************)
(* JavaScript values                                                       *)
(***************************************************************************)
Undefined == "undefined"

Null == "null"

Falsy(v) == v \in {Undefined, Null, ""}

\* a || b
OrElse(a, b) == IF Falsy(a) THEN b ELSE a

(***************************************************************************)
(* tcomb declarations.  Every record has the same fields; a proxy keeps    *)
(* its own properties (those named in keys) and forwards the others.       *)
(***************************************************************************)
D0 ==
  [kind |-> "", name |-> Undefined, type |-> "", props |-> <<>>, types |-> <<>>,
   map |-> <<>>, target |-> "", keys |-> {}, typeDesc |-> Undefined,
   interfaces |-> <<>>, input |-> FALSE, args |-> <<>>,
   publishType |-> Undefined, desc |-> Undefined, val |-> Undefined]

tIrreducible(name) == [D0 EXCEPT !.kind = "irreducible", !.name = name]

tRefinement(of, name) == [D0 EXCEPT !.kind = "subtype", !.name = name, !.type = of]

tEnums(map, name) == [D0 EXCEPT !.kind = "enums", !.name = name, !.map = map]

tList(of) == [D0 EXCEPT !.kind = "list", !.type = of]

tMaybe(of) == [D0 EXCEPT !.kind = "maybe", !.type = of]

tStruct(props, name) == [D0 EXCEPT !.kind = "struct", !.name = name, !.props = props]

tInterface(props, name) == [D0 EXCEPT !.kind = "interface", !.name = name, !.props = props]

tUnion(types, name) == [D0 EXCEPT !.kind = "union", !.name = name, !.types = types]

\* proxy(Type, props): the proxy's own keys are Object.keys(props).
proxy(Type, keys, props) == [props EXCEPT !.kind = "proxy", !.target = Type, !.keys = keys]

\* type(name, __typeDesc, props, ...interfaces) over the struct it creates.
type(struct, typeDesc, interfaces) ==
  proxy(struct, {"__typeDesc", "interfaces"},
        [D0 EXCEPT !.typeDesc = typeDesc, !.interfaces = interfaces])

\* input(name, __typeDesc, props) over the struct it creates.
input(struct, typeDesc) ==
  proxy(struct, {"__typeDesc", "__input"}, [D0 EXCEPT !.typeDesc = typeDesc, !.input = TRUE])

fn(args, OutputType, publishType, desc) ==
  proxy(OutputType, {"__args", "__publishType", "__desc"},
        [D0 EXCEPT !.args = args, !.publishType = publishType, !.desc = desc])

arg(Type, val, desc) ==
  IF val = Null
  THEN proxy(Type, {"__desc"}, [D0 EXCEPT !.desc = desc])
  ELSE proxy(Type, {"__val", "__desc"}, [D0 EXCEPT !.val = val, !.desc = desc])

\* The declarations of the examples (README Basic and Secure), plus a
\* self-referential struct, an unmapped type (t.Any) and its nestings.
\* t.maybe returns its argument when that is a maybe already, so no
\* declaration is a maybe of a maybe.
Decls ==
     "String" :> tIrreducible("String")
  @@ "Integer" :> tRefinement("Number", "Integer")
  @@ "Number" :> tIrreducible("Number")
  @@ "ID" :> tUnion(<<"String", "Integer">>, "ID")
  @@ "Any" :> tIrreducible("Any")
  @@ "Color" :> tEnums(<< <<"RED", "r">>, <<"BLUE", "b">> >>, "Color")
  @@ "RandomInt" :> tStruct(<< <<"int", "Integer">> >>, "RandomInt")
  @@ "Beep.struct" :> tStruct(<< <<"beepiness", "Integer">> >>, "Beep")
  @@ "Beep" :> type("Beep.struct", "A beep noise", <<>>)
  @@ "Textable" :> tInterface(<< <<"text", "String">> >>, "Textable")
  @@ "Message.struct" :> tStruct(<< <<"text", "String">> >>, "Message")
  @@ "Message" :> type("Message.struct", Null, <<"Textable">>)
  @@ "BotNoise" :> tUnion(<<"Beep", "Message">>, "BotNoise")
  @@ "SendMessageInput.struct" :> tStruct(<< <<"text", "String">> >>, "SendMessageInput")
  @@ "SendMessageInput" :> input("SendMessageInput.struct", "sendMessage input")
  @@ "Node" :> tStruct(<< <<"value", "Integer">>, <<"next", "maybe(Node)">> >>, "Node")
  @@ "maybe(Node)" :> tMaybe("Node")
  @@ "maybe(Integer)" :> tMaybe("Integer")
  @@ "list(Integer)" :> tList("Integer")
  @@ "list(maybe(Integer))" :> tList("maybe(Integer)")
  @@ "maybe(list(Integer))" :> tMaybe("list(Integer)")
  @@ "maybe(ID)" :> tMaybe("ID")
  @@ "maybe(Message)" :> tMaybe("Message")
  @@ "maybe(BotNoise)" :> tMaybe("BotNoise")
  @@ "list(maybe(BotNoise))" :> tList("maybe(BotNoise)")
  @@ "list(Beep)" :> tList("Beep")
  @@ "maybe(Any)" :> tMaybe("Any")
  @@ "list(Any)" :> tList("Any")
  @@ "AnyHolder" :> tStruct(<< <<"x", "Any">> >>, "AnyHolder")
  @@ "AnyArg" :> tStruct(<< <<"f", "fn(Any)">> >>, "AnyArg")
  @@ "fn(Any)" :> fn(<< <<"q", "Any">> >>, "Integer", Undefined, Undefined)
  @@ "AnyUnion" :> tUnion(<<"Beep", "Any">>, "AnyUnion")
  @@ "limit" :> arg("Integer", "10", "Set limit (default 10)")
  @@ "toId" :> arg("maybe(ID)", Null, "optionally limit to particular User ID")
  @@ "message" :> fn(<< <<"id", "ID">> >>, "maybe(Message)", Null, "Fetch a message by ID")
  @@ "getMessage" :> fn(<< <<"limit", "limit">> >>, "Message", Null, "Fetch the latest message")
  @@ "messageSent" :> fn(<< <<"toId", "toId">> >>, "Message", Undefined, Undefined)
  @@ "sendMessage" :> fn(<< <<"input", "SendMessageInput">> >>, "Beep", "messageSent", "Send a message")
  @@ "botNoises" :> fn(<<>>, "list(maybe(BotNoise))", Null, "Fetch a list of bot noises")
  @@ "randomInt" :> fn(<<>>, "RandomInt", Undefined, Undefined)
  @@ "beeped" :> fn(<<>>, "Beep", Undefined, Undefined)
  @@ "beep" :> fn(<<>>, "Beep", "beeped", "Beep once")

\* The declaration a proxy chain ends in: the object every forwarded get
\* (meta, gql, displayName) and every forwarded set (gql) lands on.
RECURSIVE Base(_, _)
Base(T, d) == IF T[d].kind = "proxy" THEN Base(T, T[d].target) ELSE d

\* The proxy of the chain whose own keys hold key; "" when the get reaches
\* the tcomb declaration, which has none of the annotation properties.
RECURSIVE Holder(_, _, _)
Holder(T, d, key) ==
  IF T[d].kind # "proxy" THEN ""
  ELSE IF key \in T[d].keys THEN d
  ELSE Holder(T, T[d].target, key)

meta(T, d) == T[Base(T, d)]

\* t.getTypeName(type)
getTypeName(T, d) == meta(T, d).name

typeDescOf(T, d) == LET h == Holder(T, d, "__typeDesc") IN IF h = "" THEN Undefined ELSE T[h].typeDesc

descOf(T, d) == LET h == Holder(T, d, "__desc") IN IF h = "" THEN Undefined ELSE T[h].desc

valOf(T, d) == LET h == Holder(T, d, "__val") IN IF h = "" THEN Undefined ELSE T[h].val

publishTypeOf(T, d) == LET h == Holder(T, d, "__publishType") IN IF h = "" THEN Undefined ELSE T[h].publishType

inputOf(T, d) == LET h == Holder(T, d, "__input") IN IF h = "" THEN FALSE ELSE T[h].input

(***************************************************************************)
(* GraphQL types                                                           *)
(***************************************************************************)
GraphQLBoolean == 1

GraphQLDate == 2

GraphQLID == 3

GraphQLInt == 4

GraphQLFloat == 5

GraphQLString == 6

Obj0 ==
  [kind |-> "", name |-> "", description |-> Undefined, of |-> "",
   hasInterfaces |-> FALSE, interfaces |-> <<>>, fields |-> <<>>,
   types |-> <<>>, values |-> <<>>]

Scalar(name) == [Obj0 EXCEPT !.kind = "Scalar", !.name = name]

\* The scalar objects the graphql modules export.
InitHeap == <<Scalar("Boolean"), Scalar("Date"), Scalar("ID"), Scalar("Int"), Scalar("Float"), Scalar("String")>>

\* A type reference: the wrappers around the named type heap[o];
\* o = 0 is undefined.
Undef == [w |-> <<>>, o |-> 0]

Ref(id) == [w |-> <<>>, o |-> id]

Wrap(tag, r) == [w |-> <<tag>> \o r.w, o |-> r.o]

\* x.maybe
IsMarker(r) == r.w # <<>> /\ Head(r.w) = "maybe"

\* x.type
MarkerType(r) == [w |-> Tail(r.w), o |-> r.o]

Ok(r, s) == [r |-> r, s |-> s]

Throw(s, e) == [r |-> Undef, s |-> [s EXCEPT !.status = e]]

\* type.gql, read through the proxies; a declaration outside the table of
\* cached declarations is a fresh object (the root structs of toGraphQL).
Cached(s, b) == IF b \in DOMAIN s.gql THEN s.gql[b] ELSE 0

\* type.gql = new ...: allocates the object and stores it on the base.
New(s, b, obj) ==
  [s EXCEPT !.heap = Append(s.heap, obj),
            !.gql = IF b \in DOMAIN s.gql THEN [s.gql EXCEPT ![b] = Len(s.heap) + 1] ELSE s.gql]

typeMapKeys == {"Boolean", "Date", "ID", "Integer", "Number", "String", "enums", "interface", "list", "maybe", "struct", "union"}

typeMap ==
  [k \in typeMapKeys |->
     CASE k = "Boolean" -> [fn |-> "", o |-> GraphQLBoolean]
       [] k = "Date" -> [fn |-> "", o |-> GraphQLDate]
       [] k = "ID" -> [fn |-> "", o |-> GraphQLID]
       [] k = "Integer" -> [fn |-> "", o |-> GraphQLInt]
       [] k = "Number" -> [fn |-> "", o |-> GraphQLFloat]
       [] k = "String" -> [fn |-> "", o |-> GraphQLString]
       [] OTHER -> [fn |-> k, o |-> 0]]

\* const x = e; body(x): e is evaluated once, then body on its value.
With(e, body(_)) == CHOOSE r \in {body(x) : x \in {e}} : TRUE

RECURSIVE transform(_, _, _, _, _)
RECURSIVE mapTransform(_, _, _, _, _)
RECURSIVE objectFields(_, _, _, _)
RECURSIVE fieldArgs(_, _, _, _)

enums(T, d, s, fuel) ==
  LET b == Base(T, d)
  IN IF Cached(s, b) # 0 THEN Ok(Ref(Cached(s, b)), s)
     ELSE Ok(Ref(Len(s.heap) + 1),
             New(s, b, [Obj0 EXCEPT !.kind = "Enum", !.name = getTypeName(T, d),
                                    !.of = b, !.values = meta(T, d).map]))

\* types.map(t => transform(t, optional)), left to right; stops at a throw.
mapTransform(T, ds, optional, s, fuel) ==
  IF ds = <<>> THEN [rs |-> <<>>, s |-> s]
  ELSE With(transform(T, Head(ds), optional, s, fuel), LAMBDA h :
         IF h.s.status # "ok" THEN [rs |-> <<>>, s |-> h.s]
         ELSE With(mapTransform(T, Tail(ds), optional, h.s, fuel), LAMBDA t :
                [rs |-> <<h.r>> \o t.rs, s |-> t.s]))

\* Variant of list that transforms the element as optional.
listOptionalElement(T, d, s, fuel) ==
  With(transform(T, meta(T, d).type, TRUE, s, fuel), LAMBDA e :
    IF e.s.status # "ok" THEN e ELSE Ok(Wrap("List", e.r), e.s))

list(T, d, s, fuel) ==
  With(transform(T, meta(T, d).type, FALSE, s, fuel), LAMBDA e :
    IF e.s.status # "ok" THEN e ELSE Ok(Wrap("List", e.r), e.s))

maybe(T, d, s, fuel) ==
  With(transform(T, meta(T, d).type, TRUE, s, fuel), LAMBDA e :
    IF e.s.status # "ok" THEN e ELSE Ok(Wrap("maybe", e.r), e.s))

union(T, d, s, fuel) ==
  With(mapTransform(T, meta(T, d).types, TRUE, s, fuel), LAMBDA m :
    IF m.s.status # "ok" THEN Throw(m.s, m.s.status)
    ELSE Ok(Ref(Len(m.s.heap) + 1),
            New(m.s, "", [Obj0 EXCEPT !.kind = "Union", !.name = getTypeName(T, d),
                                      !.description = OrElse(typeDescOf(T, d), descOf(T, d)),
                                      !.of = Base(T, d), !.types = m.rs])))

\* The args of one field: Object.entries(propType.__args).reduce(...).
fieldArgs(T, as, s, fuel) ==
  IF as = <<>> THEN [rs |-> <<>>, s |-> s]
  ELSE With(transform(T, Head(as)[2], FALSE, s, fuel), LAMBDA h :
         IF h.s.status # "ok" THEN [rs |-> <<>>, s |-> h.s]
         ELSE With(fieldArgs(T, Tail(as), h.s, fuel), LAMBDA t :
                [rs |-> <<[name |-> Head(as)[1], type |-> h.r,
                           defaultValue |-> valOf(T, Head(as)[2]),
                           description |-> descOf(T, Head(as)[2])]>> \o t.rs,
                 s |-> t.s]))

\* The fields of an object: Object.entries(type.meta.props).reduce(...).
objectFields(T, ps, s, fuel) ==
  IF ps = <<>> THEN [rs |-> <<>>, s |-> s]
  ELSE LET prop == Head(ps)[1]
           propType == Head(ps)[2]
           ah == Holder(T, propType, "__args")
       IN With(transform(T, propType, FALSE, s, fuel), LAMBDA h :
            IF h.s.status # "ok" THEN [rs |-> <<>>, s |-> h.s]
            ELSE With(IF ah = "" THEN [rs |-> <<>>, s |-> h.s] ELSE fieldArgs(T, T[ah].args, h.s, fuel), LAMBDA a :
                   IF a.s.status # "ok" THEN [rs |-> <<>>, s |-> a.s]
                   ELSE With(objectFields(T, Tail(ps), a.s, fuel), LAMBDA t :
                          [rs |-> <<[name |-> prop, type |-> h.r, defaultValue |-> valOf(T, propType),
                                     description |-> descOf(T, propType), hasArgs |-> ah # "",
                                     args |-> a.rs, resolve |-> Undefined, mw |-> <<>>]>> \o t.rs,
                           s |-> t.s])))

object(T, d, GraphQLType, s, fuel) ==
  LET b == Base(T, d)
      ih == Holder(T, d, "interfaces")
  IN IF Cached(s, b) # 0 THEN Ok(Ref(Cached(s, b)), s)
     ELSE With(mapTransform(T, IF ih = "" THEN <<>> ELSE T[ih].interfaces, TRUE, s, fuel), LAMBDA is :
            IF is.s.status # "ok" THEN Throw(is.s, is.s.status)
            ELSE With(objectFields(T, meta(T, d).props, is.s, fuel), LAMBDA fs :
                   IF fs.s.status # "ok" THEN Throw(fs.s, fs.s.status)
                   ELSE Ok(Ref(Len(fs.s.heap) + 1),
                           New(fs.s, b, [Obj0 EXCEPT !.kind = GraphQLType, !.name = getTypeName(T, d),
                                                     !.description = OrElse(typeDescOf(T, d), descOf(T, d)),
                                                     !.of = b, !.hasInterfaces = ih # "",
                                                     !.interfaces = is.rs, !.fields = fs.rs]))))

inter(T, d, s, fuel) == object(T, d, "Interface", s, fuel)

struct(T, d, s, fuel) == object(T, d, IF inputOf(T, d) THEN "InputObject" ELSE "Object", s, fuel)

\* typeMap[type.meta.name] || typeMap[type.meta.kind]
lookup(T, d) ==
  IF meta(T, d).name \in typeMapKeys THEN typeMap[meta(T, d).name]
  ELSE IF meta(T, d).kind \in typeMapKeys THEN typeMap[meta(T, d).kind]
  ELSE [fn |-> "", o |-> 0]

\* x = typeof(x) === 'function' ? x(type) : x
resolveEntry(T, d, s, fuel) ==
  LET e == lookup(T, d)
  IN CASE e.fn = "enums" -> enums(T, d, s, fuel)
       [] e.fn = "interface" -> inter(T, d, s, fuel)
       [] e.fn = "list" -> list(T, d, s, fuel)
       [] e.fn = "maybe" -> maybe(T, d, s, fuel)
       [] e.fn = "struct" -> struct(T, d, s, fuel)
       [] e.fn = "union" -> union(T, d, s, fuel)
       [] OTHER -> Ok(Ref(e.o), s)

\* fuel is the room left on the call stack: a transform entered with none
\* ends in RangeError (maximum call stack size exceeded).
transform(T, d, optional, s, fuel) ==
  IF fuel = 0 THEN Throw(s, "RangeError")
  ELSE With(resolveEntry(T, d, s, fuel - 1), LAMBDA x :
         IF x.s.status # "ok" THEN x
         ELSE IF optional THEN x
         ELSE IF x.r = Undef THEN Throw(x.s, "TypeError")
         ELSE IF IsMarker(x.r) THEN Ok(MarkerType(x.r), x.s)
         ELSE Ok(Wrap("NonNull", x.r), x.s))

(***************************************************************************)
(* State                                                                   *)
(***************************************************************************)
\* The declarations that can hold a gql property are the tcomb declarations.
BaseDecls == {d \in DOMAIN Decls : Decls[d].kind # "proxy"}

NullMap == [isNull |-> TRUE, entries |-> <<>>]

EmptyTable == [t \in {} |-> [f \in {} |-> ""]]

Init ==
  /\ heap = InitHeap
  /\ gql = [b \in BaseDecls |-> 0]
  /\ calls = <<>>
  /\ queries = NullMap
  /\ mutations = NullMap
  /\ subscriptions = NullMap
  /\ resolvers = EmptyTable
  /\ shield = [isNull |-> TRUE, table |-> EmptyTable]
  /\ schemas = <<>>
  /\ adaptCalls = <<>>
  /\ returned = <<>>
  /\ suppliedR = {}
  /\ suppliedP = {}

(***************************************************************************)
(* transform, called by the application (it is exported)                   *)
(***************************************************************************)
TransformCall(d, optional) ==
  /\ Len(calls) < MaxCalls
  /\ \E x \in {transform(Decls, d, optional, [heap |-> heap, gql |-> gql, status |-> "ok"], MaxStack)} :
       /\ heap' = x.s.heap
       /\ gql' = x.s.gql
       /\ calls' = Append(calls, [type |-> d, optional |-> optional, r |-> x.r, status |-> x.s.status])
  /\ UNCHANGED <<registryVars, tableVars, buildVars>>

CallDecls == DOMAIN Decls

NextT == \E d \in CallDecls, optional \in BOOLEAN : TransformCall(d, optional)

SpecT == Init /\ [][NextT]_vars

(***************************************************************************)
(* TCombGraphQLSchema: registration                                        *)
(***************************************************************************)
Keys(entries) == {entries[i][1] : i \in DOMAIN entries}

\* obj[k], for a key the object has.
Get(entries, k) == entries[CHOOSE i \in DOMAIN entries : entries[i][1] = k][2]

\* obj[k] = v: a key the object has keeps its place, a new key goes last.
Put(entries, k, v) ==
  IF k \in Keys(entries)
  THEN [i \in DOMAIN entries |-> IF entries[i][1] = k THEN <<k, v>> ELSE entries[i]]
  ELSE Append(entries, <<k, v>>)

RECURSIVE PutAll(_, _)
PutAll(entries, new) ==
  IF new = <<>> THEN entries ELSE PutAll(Put(entries, Head(new)[1], Head(new)[2]), Tail(new))

\* Variant of the addMutations loop that registers the mutation itself as
\* the subscription, not its publish type.
RECURSIVE mutationsLoopSelf(_, _, _)
mutationsLoopSelf(new, m, sub) ==
  IF new = <<>> THEN [m |-> m, sub |-> sub]
  ELSE LET k == Head(new)[1]
           ty == Head(new)[2]
           pub == publishTypeOf(Decls, ty)
       IN mutationsLoopSelf(Tail(new), Put(m, k, ty),
                            IF Falsy(pub) THEN sub
                            ELSE [isNull |-> FALSE, entries |-> Put(sub.entries, k, ty)])

\* The loop of addMutations over Object.entries(mutations).
RECURSIVE mutationsLoop(_, _, _)
mutationsLoop(new, m, sub) ==
  IF new = <<>> THEN [m |-> m, sub |-> sub]
  ELSE LET k == Head(new)[1]
           ty == Head(new)[2]
           pub == publishTypeOf(Decls, ty)
       IN mutationsLoop(Tail(new), Put(m, k, ty),
                        IF Falsy(pub) THEN sub
                        ELSE [isNull |-> FALSE, entries |-> Put(sub.entries, k, pub)])

addMutations(new) ==
  /\ LET r == mutationsLoop(new, mutations.entries, subscriptions)
     IN /\ mutations' = [isNull |-> FALSE, entries |-> r.m]
        /\ subscriptions' = r.sub
  /\ UNCHANGED <<queries, transformVars, tableVars, buildVars>>

addQueries(new) ==
  /\ queries' = [isNull |-> FALSE, entries |-> PutAll(queries.entries, new)]
  /\ UNCHANGED <<mutations, subscriptions, transformVars, tableVars, buildVars>>

\* deep-extend on two-level tables whose leaves are functions or rules: a
\* type the target lacks is copied, a type both have is merged field by
\* field, the source's leaf replacing the target's.
deepExtend(target, source) ==
  [t \in DOMAIN target \cup DOMAIN source |->
     IF t \notin DOMAIN source THEN target[t]
     ELSE IF t \notin DOMAIN target THEN source[t]
     ELSE [f \in DOMAIN target[t] \cup DOMAIN source[t] |->
             IF f \in DOMAIN source[t] THEN source[t][f] ELSE target[t][f]]]

\* The paths of a table: <<type, field, leaf>>, and <<type, "", "">> for
\* the type's own entry.
Paths(table) ==
  {<<t, "", "">> : t \in DOMAIN table}
  \cup UNION {{<<t, f, table[t][f]>> : f \in DOMAIN table[t]} : t \in DOMAIN table}

\* History: for every path a call supplied, the leaf of the latest call
\* that supplied it.
Supply(supplied, table) ==
  {x \in supplied : \A y \in Paths(table) : ~(y[1] = x[1] /\ y[2] = x[2])} \cup Paths(table)

\* Variant of addResolvers that merges one level only (Object.assign).
addResolversShallow(new) ==
  /\ resolvers' = [t \in DOMAIN resolvers \cup DOMAIN new |->
                     IF t \in DOMAIN new THEN new[t] ELSE resolvers[t]]
  /\ suppliedR' = Supply(suppliedR, new)
  /\ UNCHANGED <<shield, suppliedP, transformVars, registryVars, buildVars>>

addResolvers(new) ==
  /\ resolvers' = deepExtend(resolvers, new)
  /\ suppliedR' = Supply(suppliedR, new)
  /\ UNCHANGED <<shield, suppliedP, transformVars, registryVars, buildVars>>

addPermissions(permissions) ==
  /\ shield' = [isNull |-> FALSE,
                table |-> IF shield.isNull THEN permissions ELSE deepExtend(shield.table, permissions)]
  /\ suppliedP' = Supply(suppliedP, permissions)
  /\ UNCHANGED <<resolvers, suppliedR, transformVars, registryVars, buildVars>>

(***************************************************************************)
(* TCombGraphQLSchema: toGraphQL, compile, print                           *)
(***************************************************************************)
\* Variant of rootType that keeps the root type of an earlier build.
rootTypeKept(name, entries, s) ==
  IF \E n \in DOMAIN s.heap : s.heap[n].of = name
  THEN Ok(Ref(CHOOSE n \in DOMAIN s.heap : s.heap[n].of = name), s)
  ELSE transform(Decls @@ (name :> tStruct(entries, name)), name, TRUE, s, MaxStack)

\* transform(t.struct(entries, name), true): the struct is made by this
\* call, so no gql property is on it yet.
rootType(name, entries, s) ==
  transform(Decls @@ (name :> tStruct(entries, name)), name, TRUE, s, MaxStack)

\* The named types a type refers to.
RefsOf(obj) ==
  ( {obj.fields[k].type.o : k \in DOMAIN obj.fields}
    \cup UNION {{obj.fields[k].args[a].type.o : a \in DOMAIN obj.fields[k].args} : k \in DOMAIN obj.fields}
    \cup {obj.interfaces[k].o : k \in DOMAIN obj.interfaces}
    \cup {obj.types[k].o : k \in DOMAIN obj.types} ) \ {0}

RECURSIVE Closure(_, _)
Closure(h, S) ==
  LET N == S \cup UNION {RefsOf(h[n]) : n \in S}
  IN IF N = S THEN S ELSE Closure(h, N)

Roots(schema) == {schema.query.o, schema.mutation.o, schema.subscription.o} \ {0}

\* The type map of a schema: the types its roots reach.
TypesOf(h, schema) == Closure(h, Roots(schema))

SetResolve(field, f) == [field EXCEPT !.resolve = f]

WrapResolve(field, rule) == [field EXCEPT !.mw = Append(field.mw, rule)]

\* Both libraries work in place on the fields of the schema's types that
\* the table names: the resolver is set, or wrapped by the rule.
Bind(h, types, table, wrap) ==
  [n \in DOMAIN h |->
     IF n \in types /\ h[n].name \in DOMAIN table
     THEN [h[n] EXCEPT !.fields =
             [k \in DOMAIN h[n].fields |->
                IF h[n].fields[k].name \notin DOMAIN table[h[n].name] THEN h[n].fields[k]
                ELSE IF wrap THEN WrapResolve(h[n].fields[k], table[h[n].name][h[n].fields[k].name])
                ELSE SetResolve(h[n].fields[k], table[h[n].name][h[n].fields[k].name])]]
     ELSE h[n]]

\* addResolveFunctionsToSchema({ schema, resolvers }): in place, on the
\* type objects of the schema.
addResolveFunctionsToSchema(b, table) ==
  [b EXCEPT !.heap = Bind(b.heap, TypesOf(b.heap, b.schema), table, FALSE),
            !.schema.steps = Append(b.schema.steps, "addResolveFunctionsToSchema")]

\* Variant of shieldStep that applies the middleware whatever this.shield is.
shieldStepAlways(b, sh) ==
  [b EXCEPT !.heap = Bind(b.heap, TypesOf(b.heap, b.schema), sh.table, TRUE),
            !.schema.steps = Append(b.schema.steps, "applyMiddleware"),
            !.schema.rules = sh.table,
            !.schema.fallback = "Permission denied"]

\* if (this.shield) applyMiddleware(schema, shield(this.shield, {fallback})).
shieldStep(b, sh) ==
  IF sh.isNull THEN b
  ELSE [b EXCEPT !.heap = Bind(b.heap, TypesOf(b.heap, b.schema), sh.table, TRUE),
                 !.schema.steps = Append(b.schema.steps, "applyMiddleware"),
                 !.schema.rules = sh.table,
                 !.schema.fallback = "Permission denied"]

\* if (adapt) adapt(schema)
adaptStep(b, adapt, id) ==
  IF adapt = Undefined THEN b
  ELSE [b EXCEPT !.schema.steps = Append(b.schema.steps, "adapt"),
                 !.adapted = Append(b.adapted, [callback |-> adapt, schema |-> id])]

\* new GraphQLSchema(config)
GraphQLSchema(q, m, sub) ==
  [query |-> q, mutation |-> m, subscription |-> sub, steps |-> <<"GraphQLSchema">>,
   rules |-> EmptyTable, fallback |-> Undefined]

\* config.query / config.mutation / config.subscription, in this order; c
\* carries the state and the roots built so far.
rootStep(c, root, name, m) ==
  IF m.isNull \/ c.s.status # "ok" THEN c
  ELSE With(rootType(name, m.entries, c.s), LAMBDA x :
         [c EXCEPT !.s = x.s, ![root] = x.r])

\* The body of toGraphQL, from the assembler's state a: the state left
\* behind, and the schema when no step threw.
assemble(a, adapt, id) ==
  With(rootStep([s |-> a.s, query |-> Undef, mutation |-> Undef, subscription |-> Undef],
                "query", "Query", a.queries), LAMBDA c1 :
  With(rootStep(c1, "mutation", "Mutation", a.mutations), LAMBDA c2 :
  With(rootStep(c2, "subscription", "Subscription", a.subscriptions), LAMBDA c3 :
    IF c3.s.status # "ok"
    THEN [s |-> c3.s, schema |-> GraphQLSchema(Undef, Undef, Undef), adapted |-> a.adapted]
    ELSE With(addResolveFunctionsToSchema(
                [heap |-> c3.s.heap, adapted |-> a.adapted,
                 schema |-> GraphQLSchema(c3.query, c3.mutation, c3.subscription)],
                a.resolvers), LAMBDA b1 :
         With(shieldStep(b1, a.shield), LAMBDA b2 :
         With(adaptStep(b2, adapt, id), LAMBDA b3 :
           [s |-> [c3.s EXCEPT !.heap = b3.heap], schema |-> b3.schema, adapted |-> b3.adapted]))))))

\* The assembler's fields, as toGraphQL reads them.
This ==
  [s |-> [heap |-> heap, gql |-> gql, status |-> "ok"],
   queries |-> queries, mutations |-> mutations, subscriptions |-> subscriptions,
   resolvers |-> resolvers, shield |-> shield, adapted |-> adaptCalls]

\* One run of the body of toGraphQL on the assembler.  A schema that was
\* built is kept with what the assembler held when it was built.
build(adapt) ==
  /\ Len(schemas) < MaxBuilds
  /\ \E r \in {assemble(This, adapt, Len(schemas) + 1)} :
       /\ heap' = r.s.heap
       /\ gql' = r.s.gql
       /\ adaptCalls' = r.adapted
       /\ schemas' = IF r.s.status # "ok" THEN schemas
                     ELSE Append(schemas,
                            [schema |-> r.schema, adapt |-> adapt,
                             given |-> [queries |-> queries, mutations |-> mutations,
                                        subscriptions |-> subscriptions, shield |-> shield,
                                        resolvers |-> resolvers]])
  /\ UNCHANGED <<calls, registryVars, tableVars>>

\* What a method hands back when toGraphQL did not throw: the schema, an
\* executor bound to the schema, or the schema's text.
Return(method) ==
  returned' = IF Len(schemas') = Len(schemas) THEN returned
              ELSE Append(returned, [method |-> method, schema |-> Len(schemas')])

toGraphQL(adapt) ==
  /\ build(adapt)
  /\ Return("toGraphQL")

compile(adapt) ==
  /\ build(adapt)
  /\ Return("compile")

print ==
  /\ build(Undefined)
  /\ Return("print")

(***************************************************************************)
(* Specifications                                                          *)
(***************************************************************************)
\* The assembler of the Secure example, with a mutation that publishes.
QueryInputs == {<<>>, << <<"randomInt", "randomInt">> >>}

MutationInputs == {<< <<"sendMessage", "sendMessage">> >>}

ResolverInputs == {("RandomInt" :> ("int" :> "resolveInt")) @@ ("Query" :> ("randomInt" :> "resolveRandomInt"))}

PermissionInputs == {("Query" :> ("randomInt" :> "isAuthenticated"))}

Adapts == {Undefined, "joinMonsterAdapter"}

Next ==
  \/ \E q \in QueryInputs : addQueries(q)
  \/ \E m \in MutationInputs : addMutations(m)
  \/ \E r \in ResolverInputs : addResolvers(r)
  \/ \E p \in PermissionInputs : addPermissions(p)
  \/ \E a \in Adapts : toGraphQL(a)
  \/ \E a \in Adapts : compile(a)
  \/ print

Spec == Init /\ [][Next]_vars

\* Registration of queries and mutations alone: every object over two keys
\* and four operations, in either key order.
OperationKeys == {"sendMessage", "beep"}

Operations == {"sendMessage", "beep", "randomInt", "botNoises"}

OperationInputs ==
  {<<>>}
  \cup {<< <<k, d>> >> : k \in OperationKeys, d \in Operations}
  \cup {x \in {<< <<k1, d1>>, <<k2, d2>> >> : k1 \in OperationKeys, k2 \in OperationKeys, d1 \in Operations, d2 \in Operations} :
          x[1][1] # x[2][1]}

NextM ==
  \/ \E q \in OperationInputs : addQueries(q)
  \/ \E m \in OperationInputs : addMutations(m)

SpecM == Init /\ [][NextM]_vars

\* Registration of resolvers and permissions alone: every two-level table
\* over two types, two fields and two leaves.
TableTypes == {"Query", "RandomInt"}

TableFields == {"a", "b"}

TableLeaves == {"f1", "f2"}

InnerTables == UNION {[F -> TableLeaves] : F \in SUBSET TableFields}

Tables == UNION {[S -> InnerTables] : S \in SUBSET TableTypes}

NextR ==
  \/ \E r \in Tables : addResolvers(r)
  \/ \E p \in Tables : addPermissions(p)

SpecR == Init /\ [][NextR]_vars

(***************************************************************************)
(* Properties of transform (SpecT)                                         *)
(***************************************************************************)
kindOf(d) == meta(Decls, d).kind

\* The declarations that name a schema type of their own: enums, structs,
\* inputs, interfaces and unions that the type map sends to a builder.
IsNamedDecl(d) == kindOf(d) \in {"enums", "struct", "interface", "union"} /\ lookup(Decls, d).fn # ""

\* C1: each declaration identity yields exactly one schema type object: two
\* transform calls on the same declaration, directly or through annotating
\* proxies, return the same underlying object, and no declaration has two
\* schema type objects, whatever site it was reached from.
C1_OneObjectPerDeclaration ==
  /\ \A i, j \in DOMAIN calls :
       ( /\ calls[i].status = "ok" /\ calls[j].status = "ok"
         /\ IsNamedDecl(calls[i].type)
         /\ Base(Decls, calls[i].type) = Base(Decls, calls[j].type) )
       => calls[i].r.o = calls[j].r.o
  /\ \A m, n \in DOMAIN heap : (heap[m].of # "" /\ heap[m].of = heap[n].of) => m = n

\* The scalar object a scalar declaration stands for.
SchemaScalar(name) ==
  CASE name = "String" -> GraphQLString
    [] name = "Integer" -> GraphQLInt
    [] name = "Number" -> GraphQLFloat
    [] name = "ID" -> GraphQLID
    [] name = "Boolean" -> GraphQLBoolean
    [] name = "Date" -> GraphQLDate

\* The optionality policy, stated on the structure of the declaration:
\* Nullable is the schema type of a declaration without a non-null wrapper,
\* a list element is nullable exactly when it is declared maybe.
RECURSIVE Nullable(_, _)
Nullable(g, d) ==
  LET m == meta(Decls, d)
  IN CASE m.kind = "struct" -> Ref(g[Base(Decls, d)])
       [] m.kind = "maybe" -> Nullable(g, m.type)
       [] m.kind = "list" ->
            IF kindOf(m.type) = "maybe"
            THEN Wrap("List", Nullable(g, m.type))
            ELSE Wrap("List", Wrap("NonNull", Nullable(g, m.type)))
       [] OTHER -> Ref(SchemaScalar(m.name))

Policy(g, d, optional) ==
  CASE kindOf(d) = "maybe" /\ optional -> Wrap("maybe", Nullable(g, d))
    [] kindOf(d) = "maybe" /\ ~optional -> Nullable(g, d)
    [] kindOf(d) # "maybe" /\ optional -> Nullable(g, d)
    [] kindOf(d) # "maybe" /\ ~optional -> Wrap("NonNull", Nullable(g, d))

\* The declarations built from scalars, structs, lists and maybe.
PolicyDecls ==
  {"String", "Integer", "Number", "ID", "RandomInt", "Beep", "Beep.struct", "SendMessageInput",
   "maybe(Integer)", "list(Integer)", "list(maybe(Integer))", "maybe(list(Integer))",
   "maybe(ID)", "list(Beep)", "limit", "toId", "randomInt"}

\* C2: transform applies the four-case optionality policy: optional=false
\* gives NonNull(T) for a plain T and the nullable type of T for maybe(T);
\* optional=true gives T bare and the marker over the nullable type of T;
\* list elements follow the optional=false rule.
C2_OptionalityPolicy ==
  \A i \in DOMAIN calls :
    calls[i].type \in PolicyDecls
    => /\ calls[i].status = "ok"
       /\ calls[i].r.o \in DOMAIN heap
       /\ calls[i].r = Policy(gql, calls[i].type, calls[i].optional)

C2_Witness ==
  \E i, j \in DOMAIN calls :
    /\ calls[i].type = "list(maybe(Integer))" /\ ~calls[i].optional
    /\ calls[i].r = [w |-> <<"NonNull", "List">>, o |-> GraphQLInt]
    /\ calls[j].type = "maybe(list(Integer))" /\ ~calls[j].optional
    /\ calls[j].r = [w |-> <<"List", "NonNull">>, o |-> GraphQLInt]

\* The declarations whose graph refers back to themselves.
SelfReferential == {"Node", "maybe(Node)"}

\* C3: transform terminates on every finite graph of declarations; for a
\* self-referential struct it finishes, builds the struct's schema type
\* once, and the back-reference is that same object.
C3_SelfReferenceTerminates ==
  \A i \in DOMAIN calls :
    /\ calls[i].status # "RangeError"
    /\ calls[i].type \in SelfReferential
       => /\ calls[i].status = "ok"
          /\ gql["Node"] # 0
          /\ calls[i].r.o = gql["Node"]
          /\ Cardinality({n \in DOMAIN heap : heap[n].of = "Node"}) = 1
          /\ \E k \in DOMAIN heap[gql["Node"]].fields :
               /\ heap[gql["Node"]].fields[k].name = "next"
               /\ heap[gql["Node"]].fields[k].type = Ref(gql["Node"])

\* The declarations that hold a type with no entry in the type map, by name
\* or by kind: bare, maybe-wrapped, as list element, struct field, argument
\* and union member.
Unmapped == {"Any", "maybe(Any)", "list(Any)", "AnyHolder", "AnyArg", "fn(Any)", "AnyUnion"}

\* C6: transforming a declaration with no entry in the type map, bare or
\* nested, fails for either value of optional, and returns no schema type.
C6_UnmappedTypeFails ==
  \A i \in DOMAIN calls :
    calls[i].type \in Unmapped => (calls[i].status = "TypeError" /\ calls[i].r = Undef)

\* The description a declaration was given by its own type(...) or
\* input(...) call; declarations made by tcomb alone have none.
OwnDescription(b) ==
  LET ps == {p \in DOMAIN Decls : /\ Decls[p].kind = "proxy" /\ Decls[p].target = b
                                  /\ "__typeDesc" \in Decls[p].keys}
  IN IF ps = {} THEN Undefined ELSE OrElse(Decls[CHOOSE p \in ps : TRUE].typeDesc, Undefined)

\* C9: the schema type built for a struct, input, interface or union does
\* not depend on the reference transformed first: its description is the
\* declaration's own description, never the one fn or arg gave a reference.
C9_DescriptionIsOwn ==
  \A n \in DOMAIN heap :
    heap[n].kind \in {"Object", "InputObject", "Interface", "Union"}
    => heap[n].description = OwnDescription(heap[n].of)

(***************************************************************************)
(* Properties of the assembler (Spec, SpecM, SpecR)                        *)
(***************************************************************************)
HasRoot(ref) == ref # Undef

\* C4: a built schema has a Query root exactly when at least one query
\* entry is registered, a Mutation root exactly when at least one mutation
\* entry is, a Subscription root exactly when at least one subscription
\* entry is; a root whose map is unset or empty is omitted.
C4_RootIffEntryRegistered ==
  \A i \in DOMAIN schemas :
    /\ HasRoot(schemas[i].schema.query) <=> (schemas[i].given.queries.entries # <<>>)
    /\ HasRoot(schemas[i].schema.mutation) <=> (schemas[i].given.mutations.entries # <<>>)
    /\ HasRoot(schemas[i].schema.subscription) <=> (schemas[i].given.subscriptions.entries # <<>>)

StepsFor(b) ==
  <<"GraphQLSchema", "addResolveFunctionsToSchema">>
  \o (IF b.given.shield.isNull THEN <<>> ELSE <<"applyMiddleware">>)
  \o (IF b.adapt = Undefined THEN <<>> ELSE <<"adapt">>)

\* C7: every toGraphQL run takes its steps in a fixed order on one schema:
\* the schema is constructed, the resolver table attached, the middleware
\* with fallback "Permission denied" applied iff permissions were
\* registered, adapt invoked once with that schema iff it was supplied, and
\* that schema is the one returned.
C7_StepsInOrder ==
  \A i \in DOMAIN schemas :
    /\ schemas[i].schema.steps = StepsFor(schemas[i])
    /\ schemas[i].schema.fallback = (IF schemas[i].given.shield.isNull THEN Undefined ELSE "Permission denied")
    /\ schemas[i].schema.rules = schemas[i].given.shield.table
    /\ Cardinality({k \in DOMAIN adaptCalls : adaptCalls[k].schema = i})
         = (IF schemas[i].adapt = Undefined THEN 0 ELSE 1)
    /\ \A k \in DOMAIN adaptCalls : adaptCalls[k].schema = i => adaptCalls[k].callback = schemas[i].adapt
    /\ i \in DOMAIN returned /\ returned[i].schema = i

C7_Witness ==
  \E i, j \in DOMAIN schemas :
    /\ schemas[i].schema.steps = <<"GraphQLSchema", "addResolveFunctionsToSchema", "applyMiddleware", "adapt">>
    /\ schemas[j].schema.steps = <<"GraphQLSchema", "addResolveFunctionsToSchema">>
    /\ adaptCalls = <<[callback |-> "joinMonsterAdapter", schema |-> i]>>

PublishTypeAt(entries, k) == publishTypeOf(Decls, Get(entries, k))

\* C8: after any sequence of addMutations calls the subscription set has
\* key k iff the declaration now registered as mutation k carries a publish
\* type, and the entry is that publish type; addQueries never changes the
\* subscription set.
C8_SubscriptionIffPublishes ==
  \A k \in OperationKeys :
    /\ k \in Keys(subscriptions.entries)
         <=> (k \in Keys(mutations.entries) /\ ~Falsy(PublishTypeAt(mutations.entries, k)))
    /\ k \in Keys(subscriptions.entries)
         => Get(subscriptions.entries, k) = PublishTypeAt(mutations.entries, k)

\* C8, amended: a mutation that now carries a publish type has its
\* subscription entry, equal to that publish type; no step removes a
\* subscription entry; a step that changes the queries leaves the
\* subscription set alone.
C8_PublishingMutationSubscribed ==
  [][ /\ \A k \in Keys(mutations'.entries) :
           ~Falsy(PublishTypeAt(mutations'.entries, k))
           => /\ k \in Keys(subscriptions'.entries)
              /\ Get(subscriptions'.entries, k) = PublishTypeAt(mutations'.entries, k)
      /\ Keys(subscriptions.entries) \subseteq Keys(subscriptions'.entries)
      /\ queries' # queries => subscriptions' = subscriptions ]_vars

C8_Witness ==
  /\ "sendMessage" \in Keys(mutations.entries)
  /\ Falsy(PublishTypeAt(mutations.entries, "sendMessage"))
  /\ "sendMessage" \in Keys(subscriptions.entries)
  /\ Get(subscriptions.entries, "sendMessage") = "messageSent"
  /\ "beep" \in Keys(mutations.entries)
  /\ ~Falsy(PublishTypeAt(mutations.entries, "beep"))
  /\ "beep" \in Keys(subscriptions.entries)
  /\ Get(subscriptions.entries, "beep") = PublishTypeAt(mutations.entries, "beep")
  /\ ~queries.isNull

\* C10: nothing done to the assembler after a schema was built changes the
\* schema: its roots, and every type its roots reach, with the resolver
\* and the middleware of every field, stay as they are.
C10_BuiltSchemaUnchanged ==
  [][ \A i \in DOMAIN schemas :
        /\ schemas'[i] = schemas[i]
        /\ \A n \in TypesOf(heap, schemas[i].schema) : heap'[n] = heap[n] ]_vars

\* C10, amended: the root types of a built schema, with their fields and
\* the resolver and middleware of each root field, stay as they are.
C10_RootsUnchanged ==
  [][ \A i \in DOMAIN schemas :
        /\ schemas'[i] = schemas[i]
        /\ \A n \in Roots(schemas[i].schema) : heap'[n] = heap[n] ]_vars

ResolveOf(n, field) ==
  {heap[n].fields[k].resolve : k \in {k \in DOMAIN heap[n].fields : heap[n].fields[k].name = field}}

C10_Witness ==
  /\ Len(schemas) = 2
  /\ returned[1].method = "compile"
  /\ HasRoot(schemas[1].schema.query) /\ HasRoot(schemas[2].schema.query)
  /\ schemas[1].schema.query # schemas[2].schema.query
  /\ ResolveOf(schemas[1].schema.query.o, "randomInt") = {Undefined}
  /\ ResolveOf(schemas[2].schema.query.o, "randomInt") = {"resolveRandomInt"}
  /\ ResolveOf(gql["RandomInt"], "int") = {"resolveInt"}
  /\ schemas[1].given.resolvers = EmptyTable

====
